---- MODULE Spec2Model ----
(***************************************************************************)
(* URL shortener of the location-ai-platform: URLService                   *)
(* (app/services/url_service.py) working on a Redis store.                 *)
(*                                                                         *)
(* Strings the code takes apart (short codes, store keys, the short URL)   *)
(* are sequences of one-character strings; target URLs are opaque strings. *)
(* Time is counted in units of 1/UnitsPerSecond second on one clock shared *)
(* by datetime.utcnow() and the store.                                     *)
(*                                                                         *)
(* The chat endpoint (app/websocket/chat_handler.py) is modelled next to   *)
(* it: the ConnectionManager and one handler coroutine per socket.         *)
(***************************************************************************)
EXTENDS Integers, Sequences, FiniteSets, TLC

VARIABLES store, now, steps, nres, expired, last, prev, conns, procs, ws

vars == <<store, now, steps, nres, expired, last, prev, conns, procs, ws>>

----------------------------------------------------------------------------
(* Bounds of the model *)

\* clock resolution: units per second
UnitsPerSecond == 2
\* number of steps (calls and clock advances) in a behaviour
MaxSteps == 3

----------------------------------------------------------------------------
(* Program constants *)

\* url_service.py:65   expire_seconds = 3600 * 24 * 30
DefaultTTL == 2592000
\* url_service.py:104  ltrim(key, 0, 99): the log keeps 100 entries
LogCap == 100
\* config.py:15
base_url == "http://localhost:8000"

U1 == "https://example.com/test"
U2 == "https://example.com/stats-test"
URLs == {U1, U2}

\* the URL of test_create_short_url, and the empty URL
U3 == "https://example.com/very/long/url"
UEmpty == ""
GenURLs == URLs \cup {U3, UEmpty}

\* hashlib.md5(url.encode()).hexdigest()[:6] of these URLs
Md5Hex6(u) ==
    CASE u = U1 -> <<"9", "1", "0", "d", "8", "f">>
      [] u = U2 -> <<"f", "b", "4", "9", "a", "1">>
      [] u = U3 -> <<"4", "7", "d", "1", "3", "b">>
      [] u = UEmpty -> <<"d", "4", "1", "d", "8", "c">>

\* the pairs random.choices(ascii_letters + digits, k=2) is let to draw
RandomChars == {<<"Z", "9">>}

\* string.ascii_letters + string.digits, and a sample of it: a
\* lower-case letter, an upper-case letter, the first and the last digit
AsciiLetters ==
    {"a", "b", "c", "d", "e", "f", "g", "h", "i", "j", "k", "l", "m",
     "n", "o", "p", "q", "r", "s", "t", "u", "v", "w", "x", "y", "z",
     "A", "B", "C", "D", "E", "F", "G", "H", "I", "J", "K", "L", "M",
     "N", "O", "P", "Q", "R", "S", "T", "U", "V", "W", "X", "Y", "Z"}
Digits == {"0", "1", "2", "3", "4", "5", "6", "7", "8", "9"}
GenChars == {"a", "Z", "0", "9"}

\* random.choices(chars, k=2): two characters drawn with replacement
RandomChoices == {<<x, y>> : x \in GenChars, y \in GenChars}

\* variant: one random character
generate_short_code_k1(u, r) == Md5Hex6(u) \o <<r[1]>>

\* generate_short_code: 6 hex characters of the digest + 2 random characters
generate_short_code(u, r) == Md5Hex6(u) \o r

CodeA == <<"a">>
CodeUrlA == <<"u", "r", "l", ":", "a">>
\* custom codes a caller supplies
CustomCodes == {CodeA, CodeUrlA}
\* short_code argument: <<>> is None, <<c>> is the string c; the empty
\* string is a string a caller can pass as well
CodeArgs == {<<>>, << <<>> >>} \cup {<<c>> : c \in CustomCodes}

GeneratedCodes == {generate_short_code(u, r) : u \in URLs, r \in RandomChars}
AllCodes == CustomCodes \cup GeneratedCodes

\* expires_at argument, relative to the clock at the call: one second in
\* the past, a fraction of a second ahead, one second and a fraction ahead
ExpiryOffsets == {0 - UnitsPerSecond, 1, UnitsPerSecond + 1}
\* clock advances: one second, the default ttl
TickDeltas == {UnitsPerSecond, DefaultTTL * UnitsPerSecond}

----------------------------------------------------------------------------
(* Python values *)

PyNone == [t |-> "none", v |-> ""]
Str(x) == [t |-> "str", v |-> x]
Bytes(x) == [t |-> "bytes", v |-> x]
\* what the client sends for a str argument; replies come back as bytes
\* (aioredis.from_url without decode_responses)
Encode(x) == Bytes(x)

NoExp == -1

----------------------------------------------------------------------------
(* Store keys *)

UrlPrefix == <<"u", "r", "l", ":">>
MetaPrefix == <<"m", "e", "t", "a", ":">>
ClicksPrefix == <<"c", "l", "i", "c", "k", "s", ":">>
LogPrefix == <<"c", "l", "i", "c", "k", "s", "_", "l", "o", "g", ":">>

UrlKey(c) == UrlPrefix \o c
MetaKey(c) == MetaPrefix \o c
\* variant: one counter for all codes
ClicksKey_shared(c) == ClicksPrefix
ClicksKey(c) == ClicksPrefix \o c
LogKey(c) == LogPrefix \o c

HasPrefix(k, p) == Len(k) >= Len(p) /\ SubSeq(k, 1, Len(p)) = p

\* str.replace(old, ""): every non-overlapping occurrence, left to right
RECURSIVE Replace(_, _)
Replace(s, old) ==
    IF s = <<>> THEN <<>>
    ELSE IF HasPrefix(s, old)
         THEN Replace(SubSeq(s, Len(old) + 1, Len(s)), old)
         ELSE <<Head(s)>> \o Replace(Tail(s), old)

----------------------------------------------------------------------------
(* Redis commands on a store s: a function from the existing keys to       *)
(* [val, exp]; exp is the instant the key expires, NoExp for none.         *)

Exists(s, k) == k \in DOMAIN s
Put(s, k, e) == [x \in DOMAIN s \cup {k} |-> IF x = k THEN e ELSE s[x]]

\* SETEX key seconds value: an error for a non-positive ttl
SetexOk(ttl) == ttl > 0

\* variant: an existing key keeps its value (SET ... NX)
SETEX_nx(s, t, k, ttl, v) ==
    IF Exists(s, k) THEN s
    ELSE Put(s, k, [val |-> v, exp |-> t + ttl * UnitsPerSecond])

SETEX(s, t, k, ttl, v) == Put(s, k, [val |-> v, exp |-> t + ttl * UnitsPerSecond])

DEL(s, k) == [x \in DOMAIN s \ {k} |-> s[x]]

\* INCR key: a missing key counts from 0 and gets no expiry
INCR(s, k) ==
    IF Exists(s, k) THEN [s EXCEPT ![k].val = @ + 1]
    ELSE Put(s, k, [val |-> 1, exp |-> NoExp])

\* LPUSH key value: a missing key becomes a one-element list without expiry
LPUSH(s, k, v) ==
    IF Exists(s, k) THEN [s EXCEPT ![k].val = <<v>> \o @]
    ELSE Put(s, k, [val |-> <<v>>, exp |-> NoExp])

\* variant: stop is taken as exclusive, one entry fewer is kept
LTRIM_exclusive(s, k, stop) ==
    IF Exists(s, k) /\ Len(s[k].val) > stop
    THEN [s EXCEPT ![k].val = SubSeq(@, 1, stop)]
    ELSE s

\* LTRIM key 0 stop
LTRIM(s, k, stop) ==
    IF Exists(s, k) /\ Len(s[k].val) > stop + 1
    THEN [s EXCEPT ![k].val = SubSeq(@, 1, stop + 1)]
    ELSE s

\* LRANGE key 0 -1
LRANGE(s, k) == IF Exists(s, k) THEN s[k].val ELSE <<>>

\* KEYS prefix*
KEYS(s, p) == {k \in DOMAIN s : HasPrefix(k, p)}

\* the store once the clock shows t: expired keys are gone
Purge(s, t) == [k \in {x \in DOMAIN s : s[x].exp = NoExp \/ s[x].exp > t} |-> s[k]]

----------------------------------------------------------------------------
(* Python helpers *)

\* int(x) of a quotient: truncation toward zero
TruncDiv(a, b) == IF a >= 0 THEN a \div b ELSE 0 - ((0 - a) \div b)

\* truth value of a str, bytes or None
Truthy(x) == x.t # "none" /\ x.v # ""

\* bytes.decode()
Decode(x) == Str(x.v)

\* a Python None
IsNone(x) == "t" \in DOMAIN x /\ x.t = "none"

\* redis.get(key): the stored bytes or None
GET(s, k) == IF Exists(s, k) THEN s[k].val ELSE PyNone

\* int(click_count) if click_count else 0, of redis.get(clicks key); the
\* counter is kept as the number its decimal digits denote
ClickCount(s, c) == IF Exists(s, ClicksKey(c)) THEN s[ClicksKey(c)].val ELSE 0

Return(s, v) == [store |-> s, kind |-> "return", value |-> v]
Raise(s) == [store |-> s, kind |-> "raise", value |-> PyNone]

\* f"{self.base_url}/s/{short_code}"
ShortUrl(c) == <<base_url, "/", "s", "/">> \o c

----------------------------------------------------------------------------
(* URLService: each operation maps the store s at clock t to the store it  *)
(* leaves and what the caller gets.  In these definitions every store call *)
(* other than a SETEX with a bad ttl succeeds.                             *)

\* variant: only None goes to the generator ("if short_code is None")
ChosenCode_isnone(u, codearg, r) ==
    IF codearg = <<>> THEN generate_short_code(u, r) ELSE codearg[1]

\* the code create stores under: "if not short_code" sends None and "" to
\* the generator
ChosenCode(u, codearg, r) ==
    IF codearg = <<>> \/ codearg[1] = <<>>
    THEN generate_short_code(u, r)
    ELSE codearg[1]

\* expire_seconds; exparg is <<>> for None or <<expires_at>>
ExpireSeconds(t, exparg) ==
    IF exparg # <<>> THEN TruncDiv(exparg[1] - t, UnitsPerSecond) ELSE DefaultTTL

\* the dict whose str() is stored; expires_at is <<>> for None
Metadata(t, u, exparg) ==
    [original_url |-> u,
     created_at |-> t,
     expires_at |-> exparg]

\* variant: the metadata is written with the default ttl
create_short_url_metadefault(s, t, u, codearg, exparg, r) ==
    LET short_code == ChosenCode(u, codearg, r)
        expire_seconds == ExpireSeconds(t, exparg)
        s1 == SETEX(s, t, UrlKey(short_code), expire_seconds, Encode(u))
        s2 == SETEX(s1, t, MetaKey(short_code), DefaultTTL,
                    Encode(Metadata(t, u, exparg)))
    IN  IF ~SetexOk(expire_seconds) THEN Raise(s)
        ELSE Return(s2, Str(ShortUrl(short_code)))

create_short_url(s, t, u, codearg, exparg, r) ==
    LET short_code == ChosenCode(u, codearg, r)
        expire_seconds == ExpireSeconds(t, exparg)
        s1 == SETEX(s, t, UrlKey(short_code), expire_seconds, Encode(u))
        s2 == SETEX(s1, t, MetaKey(short_code), expire_seconds,
                    Encode(Metadata(t, u, exparg)))
    IN  IF ~SetexOk(expire_seconds) THEN Raise(s)
        ELSE Return(s2, Str(ShortUrl(short_code)))

\* variant: the click is recorded before the URL is looked at
get_original_url_countfirst(s, t, c) ==
    LET original_url == GET(s, UrlKey(c))
        s1 == INCR(s, ClicksKey(c))
        s2 == LPUSH(s1, LogKey(c), t)
        s3 == LTRIM(s2, LogKey(c), LogCap - 1)
    IN  IF Truthy(original_url) THEN Return(s3, original_url)
        ELSE Return(s3, PyNone)

get_original_url(s, t, c) ==
    LET original_url == GET(s, UrlKey(c))
        s1 == INCR(s, ClicksKey(c))
        s2 == LPUSH(s1, LogKey(c), t)
        s3 == LTRIM(s2, LogKey(c), LogCap - 1)
    IN  IF Truthy(original_url) THEN Return(s3, original_url)
        ELSE Return(s, PyNone)

\* variant: reading the statistics trims the log to one entry fewer
get_url_stats_trimming(s, t, c) ==
    Return(LTRIM(s, LogKey(c), LogCap - 2),
           [short_code |-> c,
            click_count |-> ClickCount(s, c),
            click_logs |-> LRANGE(s, LogKey(c)),
            metadata |-> GET(s, MetaKey(c))])

get_url_stats(s, t, c) ==
    Return(s, [short_code |-> c,
               click_count |-> ClickCount(s, c),
               click_logs |-> LRANGE(s, LogKey(c)),
               metadata |-> GET(s, MetaKey(c))])

\* variant: the URL key is left in place
delete_short_url_keepurl(s, t, c) ==
    Return(DEL(DEL(DEL(s, MetaKey(c)), ClicksKey(c)), LogKey(c)), TRUE)

\* variant: reports whether a key was there to delete
delete_short_url_existed(s, t, c) ==
    Return(DEL(DEL(DEL(DEL(s, UrlKey(c)), MetaKey(c)), ClicksKey(c)), LogKey(c)),
           \E k \in {UrlKey(c), MetaKey(c), ClicksKey(c), LogKey(c)} : Exists(s, k))

delete_short_url(s, t, c) ==
    Return(DEL(DEL(DEL(DEL(s, UrlKey(c)), MetaKey(c)), ClicksKey(c)), LogKey(c)),
           TRUE)

\* one entry of get_all_urls for the key the scan found
UrlEntry(s, key) ==
    LET short_code == Replace(key, UrlPrefix)
        original_url == GET(s, key)
    IN  [short_code |-> short_code,
         original_url |-> IF Truthy(original_url) THEN Decode(original_url)
                          ELSE PyNone,
         metadata |-> GET(s, MetaKey(short_code)),
         click_count |-> ClickCount(s, short_code)]

\* keys is the reply of KEYS url:* in the order the store gave it
get_all_urls(s, t, keys) ==
    Return(s, [i \in 1..Len(keys) |-> UrlEntry(s, keys[i])])

\* the orders in which the store may enumerate a set of keys
Orders(K) ==
    {q \in [1..Cardinality(K) -> K] : \A i, j \in 1..Cardinality(K) : q[i] = q[j] => i = j}

----------------------------------------------------------------------------
(* websocket/chat_handler.py: the data of the ConnectionManager and of the *)
(* handler coroutines.                                                     *)

\* the sockets that connect, each with the user_id of its path: w1 and w2
\* are two connections of the same user
Sockets == {"w1", "w2", "w3"}
UserOf(w) == IF w = "w3" THEN "u2" ELSE "u1"
Users == {UserOf(w) : w \in Sockets}

\* a dict in insertion order; "del" leaves the slot of the entry behind
\* (CPython keeps the entries array until the next resize)
NoEntry == [user |-> "", sock |-> ""]
Contains(d, key) == \E i \in 1..Len(d) : d[i].user = key
Slot(d, key) == CHOOSE i \in 1..Len(d) : d[i].user = key
GetItem(d, key) == d[Slot(d, key)].sock
SetItem(d, key, w) ==
    IF Contains(d, key) THEN [d EXCEPT ![Slot(d, key)].sock = w]
    ELSE Append(d, [user |-> key, sock |-> w])
DelItem(d, key) == [d EXCEPT ![Slot(d, key)] = NoEntry]
DictLen(d) == Cardinality({i \in 1..Len(d) : d[i] # NoEntry})
Keys(d) == {d[i].user : i \in {j \in 1..Len(d) : d[j] # NoEntry}}

\* iter(d.items()): the position, the size of the dict at creation and
\* the number of items still to come
Iter(d) == [pos |-> 1, used |-> DictLen(d), left |-> DictLen(d)]

\* next(it): RuntimeError when the size of the dict is no longer the one at
\* creation, or when an entry turns up after the counted ones
NextItem(d, it) ==
    LET live == {i \in it.pos..Len(d) : d[i] # NoEntry}
        i == CHOOSE x \in live : \A y \in live : x <= y
    IN  IF DictLen(d) # it.used THEN [kind |-> "RuntimeError"]
        ELSE IF live = {} THEN [kind |-> "StopIteration"]
        ELSE IF it.left = 0 THEN [kind |-> "RuntimeError"]
        ELSE [kind |-> "item", item |-> d[i],
              it |-> [it EXCEPT !.pos = i + 1, !.left = @ - 1]]

\* a handler coroutine of websocket_endpoint and the client of its socket:
\*   pc      "init" before accept, "recv" in receive_text, "psend"
\*           and "bsend" in the send_text of send_personal_message and of
\*           broadcast, "ended" after the return or the exception
\*   peer    the client: "none", "open", "gone"
\*   inbox   the message the client sent and the handler has not read yet
\*   req     the type of the message the handler read last
\*   cur     the dict item whose socket the pending send_text writes to
\*   ctx     the caller of the running broadcast: "joined", "chat", "left"
\*   it      the iterator of the running broadcast
\*   start, tried, failed, bres
\*           of the last broadcast: the users registered when it began,
\*           the users it sent to, disconnected_users, and how it stands
\*   exc     whether the handler ended by an exception it did not catch
NoHandler ==
    [pc |-> "init", peer |-> "none", inbox |-> "none",
     req |-> "none", cur |-> NoEntry, ctx |-> "none",
     it |-> [pos |-> 1, used |-> 0, left |-> 0],
     start |-> {}, tried |-> <<>>, failed |-> <<>>, bres |-> "none",
     exc |-> FALSE]

\* the manager after "manager = ConnectionManager()", no socket connected:
\* h holds the handler of every socket that has connected, got, per
\* socket, the kinds of message its client has received, and events the
\* number of things the clients have done
WsInit ==
    [active_connections |-> <<>>,
     h |-> [w \in {} |-> NoHandler],
     got |-> [w \in {} |-> {}],
     events |-> 0]

----------------------------------------------------------------------------
(* State *)
(*   store    the Redis keyspace                                           *)
(*   now      the clock                                                    *)
(*   steps    calls and clock advances so far                              *)
(*   nres     per code, the resolutions that returned a URL since the      *)
(*            last create under that code                                  *)
(*   expired  the codes whose URL key the store evicted by its ttl, until  *)
(*            a create writes the key again                                *)
(*   last     the call that made this state, with its outcome              *)
(*   prev     the call before it                                           *)
(*   conns    the connections a call opened and no call has closed, each   *)
(*            named by the number of the call that opened it               *)
(*   procs    the calls in flight, one per client process: what each was   *)
(*            asked, the store command it issues next, its local variables  *)

Call(op, c, u, exparg, kind, value, pre) ==
    [op |-> op, code |-> c, url |-> u, exparg |-> exparg,
     kind |-> kind, value |-> value, pre |-> pre]

Brief(l) ==
    [op |-> l.op, code |-> l.code, url |-> l.url, exparg |-> l.exparg,
     kind |-> l.kind, pre |-> l.pre]

NoCall == Call("none", <<>>, "", <<>>, "return", PyNone, PyNone)

EmptyStore == [k \in {} |-> PyNone]

\* the store a create of CodeA and LogCap resolutions of it leave, all at
\* clock 0: the counter at LogCap and as many log entries
UsedStore ==
    LET s0 == create_short_url(EmptyStore, 0, U1, <<CodeA>>, <<>>, <<"Z", "9">>).store
        s1 == Put(s0, ClicksKey(CodeA), [val |-> LogCap, exp |-> NoExp])
    IN  Put(s1, LogKey(CodeA), [val |-> [i \in 1..LogCap |-> 0], exp |-> NoExp])

\* the client processes whose calls may overlap
NProcs == 2
Procs == 1..NProcs

\* a process: op, code and url are the call and its arguments, pc the next
\* store command, val the local original_url and then the value returned,
\* keys and urls the locals of get_all_urls, c0 and l0 the counter and
\* the log length of the code when the call began, ts the timestamp a
\* resolution has read for its log entry
Proc(op, c, u, pc, val, keys, urls, c0, l0, ts) ==
    [op |-> op, code |-> c, url |-> u, pc |-> pc, val |-> val,
     keys |-> keys, urls |-> urls, c0 |-> c0, l0 |-> l0, ts |-> ts]

Idle == Proc("none", <<>>, "", "idle", PyNone, <<>>, <<>>, 0, 0, 0)

Init ==
    /\ procs = [p \in Procs |-> Idle]
    /\ now = 0
    /\ steps = 0
    /\ expired = {}
    /\ last = NoCall
    /\ prev = Brief(NoCall)
    /\ conns = {}
    /\ ws = WsInit
    /\ \/ /\ store = EmptyStore
          /\ nres = [c \in AllCodes |-> 0]
       \/ /\ store = UsedStore
          /\ nres = [c \in AllCodes |-> IF c = CodeA THEN LogCap ELSE 0]

----------------------------------------------------------------------------
(* Operations *)

\* every step counts against the bound of the model; a call whose store
\* traffic succeeds closes the connection it opened, and leaves conns as it
\* found it
Step == steps < MaxSteps /\ steps' = steps + 1 /\ UNCHANGED <<conns, procs, ws>>

Create(u, codearg, exparg, r) ==
    LET c == ChosenCode(u, codearg, r)
        out == create_short_url(store, now, u, codearg, exparg, r)
    IN  /\ Step
        /\ store' = out.store
        /\ last' = Call("create", c, u, exparg, out.kind, out.value,
                        GET(store, UrlKey(c))) @@ [codearg |-> codearg]
        /\ prev' = Brief(last)
        /\ nres' = IF out.kind = "return" THEN [nres EXCEPT ![c] = 0] ELSE nres
        /\ expired' = IF out.kind = "return" THEN expired \ {c} ELSE expired
        /\ UNCHANGED now

Resolve(c) ==
    LET out == get_original_url(store, now, c)
    IN  /\ Step
        /\ store' = out.store
        /\ last' = Call("resolve", c, "", <<>>, out.kind, out.value,
                        GET(store, UrlKey(c)))
        /\ prev' = Brief(last)
        /\ nres' = IF Truthy(out.value) THEN [nres EXCEPT ![c] = @ + 1] ELSE nres
        /\ UNCHANGED <<now, expired>>

Stats(c) ==
    LET out == get_url_stats(store, now, c)
    IN  /\ Step
        /\ store' = out.store
        /\ last' = Call("stats", c, "", <<>>, out.kind, out.value,
                        GET(store, UrlKey(c)))
        /\ prev' = Brief(last)
        /\ UNCHANGED <<now, nres, expired>>

Delete(c) ==
    LET out == delete_short_url(store, now, c)
    IN  /\ Step
        /\ store' = out.store
        /\ last' = Call("delete", c, "", <<>>, out.kind, out.value,
                        GET(store, UrlKey(c)))
        /\ prev' = Brief(last)
        /\ UNCHANGED <<now, nres, expired>>

ListAll ==
    \E keys \in Orders(KEYS(store, UrlPrefix)) :
        LET out == get_all_urls(store, now, keys)
        IN  /\ Step
            /\ store' = out.store
            /\ last' = Call("list", <<>>, "", <<>>, out.kind, out.value, PyNone)
            /\ prev' = Brief(last)
            /\ UNCHANGED <<now, nres, expired>>

\* the clock advances by d; the store drops the keys whose ttl has run out
Tick(d) ==
    /\ Step
    /\ now' = now + d
    /\ store' = Purge(store, now + d)
    /\ expired' = expired \cup
                    {c \in AllCodes : Exists(store, UrlKey(c))
                                      /\ ~Exists(Purge(store, now + d), UrlKey(c))}
    /\ last' = Call("tick", <<>>, "", <<>>, "return", PyNone, PyNone)
    /\ prev' = Brief(last)
    /\ UNCHANGED nres

ExpArgs == {<<>>} \cup {<<now + off>> : off \in ExpiryOffsets}

\* a call of generate_short_code(u) in which random.choices drew r
Generate(u, r) ==
    /\ Step
    /\ last' = [op |-> "generate", url |-> u, rand |-> r,
                value |-> generate_short_code(u, r)]
    /\ prev' = last
    /\ UNCHANGED <<store, now, nres, expired>>

Next ==
    \/ \E u \in URLs, codearg \in CodeArgs, exparg \in ExpArgs, r \in RandomChars :
           Create(u, codearg, exparg, r)
    \/ \E c \in AllCodes : Resolve(c)
    \/ \E c \in AllCodes : Stats(c)
    \/ \E c \in AllCodes : Delete(c)
    \/ ListAll
    \/ \E d \in TickDeltas : Tick(d)

Spec == Init /\ [][Next]_vars

----------------------------------------------------------------------------
(* Store failures.  A call's store traffic fails at one point f: nowhere, *)
(* in get_redis, at its n-th command, or in redis.close().  A command     *)
(* that fails leaves the store as it was.                                  *)

NoFail == [at |-> "none", n |-> 0]
Fails(k) ==
    {NoFail, [at |-> "connect", n |-> 0], [at |-> "close", n |-> 0]}
        \cup {[at |-> "cmd", n |-> i] : i \in 1..k}

\* how a try block ended: by its return, by "except: raise", or by an
\* except clause that returns v
Done(s, v) == [store |-> s, kind |-> "return", value |-> v, exc |-> FALSE]
Raised(s) == [store |-> s, kind |-> "raise", value |-> PyNone, exc |-> TRUE]
Swallowed(s, v) == [store |-> s, kind |-> "return", value |-> v, exc |-> TRUE]

\* variant: a failed metadata write takes the URL entry back
create_short_url_try_rollback(s, t, u, codearg, exparg, r, n) ==
    LET short_code == ChosenCode(u, codearg, r)
        expire_seconds == ExpireSeconds(t, exparg)
        s1 == SETEX(s, t, UrlKey(short_code), expire_seconds, Encode(u))
        s2 == SETEX(s1, t, MetaKey(short_code), expire_seconds,
                    Encode(Metadata(t, u, exparg)))
    IN  IF n = 1 \/ ~SetexOk(expire_seconds) THEN Raised(s)
        ELSE IF n = 2 THEN Raised(s)
        ELSE Done(s2, Str(ShortUrl(short_code)))

\* the try blocks of the five operations when command n fails (0: none)
create_short_url_try(s, t, u, codearg, exparg, r, n) ==
    LET short_code == ChosenCode(u, codearg, r)
        expire_seconds == ExpireSeconds(t, exparg)
        s1 == SETEX(s, t, UrlKey(short_code), expire_seconds, Encode(u))
        s2 == SETEX(s1, t, MetaKey(short_code), expire_seconds,
                    Encode(Metadata(t, u, exparg)))
    IN  IF n = 1 \/ ~SetexOk(expire_seconds) THEN Raised(s)
        ELSE IF n = 2 THEN Raised(s1)
        ELSE Done(s2, Str(ShortUrl(short_code)))

get_original_url_try(s, t, c, n) ==
    LET original_url == GET(s, UrlKey(c))
        s1 == INCR(s, ClicksKey(c))
        s2 == LPUSH(s1, LogKey(c), t)
        s3 == LTRIM(s2, LogKey(c), LogCap - 1)
    IN  IF n = 1 THEN Swallowed(s, PyNone)
        ELSE IF ~Truthy(original_url) THEN Done(s, PyNone)
        ELSE IF n = 2 THEN Swallowed(s, PyNone)
        ELSE IF n = 3 THEN Swallowed(s1, PyNone)
        ELSE IF n = 4 THEN Swallowed(s2, PyNone)
        ELSE Done(s3, original_url)

get_url_stats_try(s, t, c, n) ==
    IF n \in 1..3 THEN Swallowed(s, PyNone)
    ELSE Done(s, get_url_stats(s, t, c).value)

delete_short_url_try(s, t, c, n) ==
    LET s1 == DEL(s, UrlKey(c))
        s2 == DEL(s1, MetaKey(c))
        s3 == DEL(s2, ClicksKey(c))
        s4 == DEL(s3, LogKey(c))
    IN  IF n = 1 THEN Swallowed(s, FALSE)
        ELSE IF n = 2 THEN Swallowed(s1, FALSE)
        ELSE IF n = 3 THEN Swallowed(s2, FALSE)
        ELSE IF n = 4 THEN Swallowed(s3, FALSE)
        ELSE Done(s4, TRUE)

\* KEYS, then three GETs for each key found
get_all_urls_try(s, t, keys, n) ==
    IF n \in 1..(1 + 3 * Len(keys)) THEN Swallowed(s, <<>>)
    ELSE Done(s, get_all_urls(s, t, keys).value)

\* the commands a resolve of c issues: the GET alone when the URL is absent
ResolveCommands(s, c) == IF Truthy(GET(s, UrlKey(c))) THEN 4 ELSE 1

\* variant: close() is the last statement of the try block
CloseCalls_intry(out) == IF out.exc THEN 0 ELSE 1

\* "finally: await redis.close()": the close() calls of a call that got
\* its connection and whose try block ended as out
CloseCalls(out) == 1

\* a whole operation: get_redis before the try, the try block (out is how
\* it ends on the store s), the finally clause; an exception of get_redis
\* or of close() leaves the operation
Scoped(s, f, out) ==
    IF f.at = "connect"
    THEN [store |-> s, kind |-> "raise", value |-> PyNone,
          opened |-> FALSE, closes |-> 0]
    ELSE IF f.at = "close" /\ CloseCalls(out) > 0
    THEN [store |-> out.store, kind |-> "raise", value |-> PyNone,
          opened |-> TRUE, closes |-> CloseCalls(out)]
    ELSE [store |-> out.store, kind |-> out.kind, value |-> out.value,
          opened |-> TRUE, closes |-> CloseCalls(out)]

\* the connections open after call number id ended as r
Held(cs, id, r) == IF r.opened /\ r.closes = 0 THEN cs \cup {id} ELSE cs

\* the codes, URL and arguments of the calls made under failures
FailCodes == {CodeA}
FailCodeArgs == {<<>>, <<CodeA>>}

\* what a call under failure point f leaves in last
FailCall(op, c, u, f, r, pre) ==
    [op |-> op, code |-> c, url |-> u, exparg |-> <<>>, kind |-> r.kind,
     value |-> r.value, pre |-> pre, fail |-> f, opened |-> r.opened,
     closes |-> r.closes, conn |-> steps]

FCreate(codearg, f) ==
    LET c == ChosenCode(U1, codearg, <<"Z", "9">>)
        r == Scoped(store, f,
                    create_short_url_try(store, now, U1, codearg, <<>>,
                                         <<"Z", "9">>, f.n))
    IN  /\ steps < MaxSteps
        /\ steps' = steps + 1
        /\ UNCHANGED <<procs, ws>>
        /\ store' = r.store
        /\ conns' = Held(conns, steps, r)
        /\ last' = FailCall("create", c, U1, f, r, GET(store, UrlKey(c)))
        /\ prev' = Brief(last)
        /\ nres' = IF r.kind = "return" THEN [nres EXCEPT ![c] = 0] ELSE nres
        /\ UNCHANGED <<now, expired>>

FResolve(c, f) ==
    LET r == Scoped(store, f, get_original_url_try(store, now, c, f.n))
    IN  /\ steps < MaxSteps
        /\ steps' = steps + 1
        /\ UNCHANGED <<procs, ws>>
        /\ store' = r.store
        /\ conns' = Held(conns, steps, r)
        /\ last' = FailCall("resolve", c, "", f, r, GET(store, UrlKey(c)))
        /\ prev' = Brief(last)
        /\ nres' = IF Truthy(r.value) THEN [nres EXCEPT ![c] = @ + 1] ELSE nres
        /\ UNCHANGED <<now, expired>>

FStats(c, f) ==
    LET r == Scoped(store, f, get_url_stats_try(store, now, c, f.n))
    IN  /\ steps < MaxSteps
        /\ steps' = steps + 1
        /\ UNCHANGED <<procs, ws>>
        /\ store' = r.store
        /\ conns' = Held(conns, steps, r)
        /\ last' = FailCall("stats", c, "", f, r, GET(store, UrlKey(c)))
        /\ prev' = Brief(last)
        /\ UNCHANGED <<now, nres, expired>>

FDelete(c, f) ==
    LET r == Scoped(store, f, delete_short_url_try(store, now, c, f.n))
    IN  /\ steps < MaxSteps
        /\ steps' = steps + 1
        /\ UNCHANGED <<procs, ws>>
        /\ store' = r.store
        /\ conns' = Held(conns, steps, r)
        /\ last' = FailCall("delete", c, "", f, r, GET(store, UrlKey(c)))
        /\ prev' = Brief(last)
        /\ UNCHANGED <<now, nres, expired>>

FListAll(keys, f) ==
    LET r == Scoped(store, f, get_all_urls_try(store, now, keys, f.n))
    IN  /\ steps < MaxSteps
        /\ steps' = steps + 1
        /\ UNCHANGED <<procs, ws>>
        /\ store' = r.store
        /\ conns' = Held(conns, steps, r)
        /\ last' = FailCall("list", <<>>, "", f, r, PyNone)
        /\ prev' = Brief(last)
        /\ UNCHANGED <<now, nres, expired>>

----------------------------------------------------------------------------
(* services/ai_service.py: get_location_recommendations.  The remote call  *)
(* either raises or answers with a status and a body; a body is not JSON,  *)
(* or JSON data given as nested records and sequences.                     *)

\* the message both failure branches return
Fallback == Str("sorry, the recommendations could not be generated")

\* the JSON documents the remote may answer with
AnswerText == Str("three places near you")
JsonData ==
    {[error |-> "invalid key"],
     [choices |-> <<>>],
     [choices |-> <<[index |-> 0]>>],
     [choices |-> <<[message |-> [role |-> "assistant"]]>>]}
        \cup {[choices |-> <<[message |-> [content |-> x]]>>] :
                  x \in {AnswerText, Str(""), PyNone}}

Remotes ==
    {[kind |-> "raise"]}
        \cup {[kind |-> "response", status |-> st, json |-> FALSE] :
                  st \in {200, 500}}
        \cup {[kind |-> "response", status |-> st, json |-> TRUE, data |-> d] :
                  st \in {200, 500}, d \in JsonData}

\* data["choices"][0]["message"]["content"] does not raise
HasContent(data) ==
    /\ "choices" \in DOMAIN data
    /\ Len(data.choices) > 0
    /\ "message" \in DOMAIN data.choices[1]
    /\ "content" \in DOMAIN data.choices[1].message

\* what the call returns: every exception inside the try, that of
\* response.json() and of the subscripts included, ends in the except clause
get_location_recommendations(remote) ==
    IF remote.kind = "raise" THEN Fallback
    ELSE IF remote.status = 200
    THEN IF remote.json /\ HasContent(remote.data)
         THEN remote.data.choices[1].message.content
         ELSE Fallback
    ELSE Fallback

----------------------------------------------------------------------------
(* routers/urls.py, routers/ai_chat.py: the status and body each endpoint  *)
(* answers with, given how the service call r ended                        *)

Response(status, body) == [status |-> status, body |-> body]

\* POST /create passes expires_in_days, which create_short_url does not
\* take: the call is a TypeError before the service does anything
router_create_short_url == Response(500, PyNone)

\* GET /stats/{short_code}: reading a key the dict lacks is a KeyError
router_get_url_stats(c, r) ==
    IF r.kind = "raise" THEN Response(500, PyNone)
    ELSE IF IsNone(r.value) THEN Response(404, PyNone)
    ELSE IF ~({"original_url", "created_at"} \subseteq DOMAIN r.value)
    THEN Response(500, PyNone)
    ELSE Response(200, [short_code |-> c,
                        original_url |-> r.value.original_url,
                        click_count |-> r.value.click_count,
                        created_at |-> r.value.created_at])

\* GET /list
router_list_all_urls(r) ==
    IF r.kind = "raise" THEN Response(500, PyNone)
    ELSE Response(200, [count |-> Len(r.value), urls |-> r.value])

\* DELETE /{short_code}
router_delete_short_url(r) ==
    IF r.kind = "raise" THEN Response(500, PyNone)
    ELSE IF ~r.value THEN Response(404, PyNone)
    ELSE Response(200, "deleted")

\* str(e) of the exception a failing store call raises
ErrorMessages == {"Connection refused", "Timeout reading from socket"}
Messages(f) == IF f.at = "none" THEN {""} ELSE ErrorMessages

\* variant: the detail is the text of the exception
ErrorDetail_str(op, e) == e

\* the detail of the HTTPException(status_code=500) each endpoint raises
\* in "except Exception as e": a fixed text
ErrorDetail(op, e) ==
    CASE op = "POST /create" -> "error while creating the short URL"
      [] op = "GET /stats" -> "error while reading the statistics"
      [] op = "GET /list" -> "error while listing the URLs"
      [] op = "DELETE" -> "error while deleting the short URL"
      [] op = "POST /recommend" -> "error while generating the recommendation"

\* the detail of the HTTPException(status_code=404)
NotFoundDetail(op) ==
    IF op = "GET /stats" THEN "statistics not found" ELSE "short URL not found"

\* what the client gets: the answer of the endpoint op, which caught the
\* exception with text e when the status is 500
Answer(resp, op, e) ==
    resp @@ [detail |-> CASE resp.status = 500 -> ErrorDetail(op, e)
                          [] resp.status = 404 -> NotFoundDetail(op)
                          [] OTHER -> ""]

\* expires_in_days: the default of URLCreateRequest, which the requests
\* to POST /create leave as it is, and the value the recommendation
\* endpoint passes
DefaultDays == 30
RecommendDays == 7
RequestDays == {DefaultDays}

\* what the AI service may have answered when the link is asked for
Recommendations == {get_location_recommendations(remote) : remote \in Remotes}

\* the URL the recommendation endpoint asks a link for
ShareUrl == "http://localhost:8000/share/recommendation"

\* how url_service.create_short_url(..., expires_in_days=d) ends: the
\* method has no such parameter, the call raises TypeError before its body
create_short_url_days(s, d) ==
    [store |-> s, kind |-> "raise", value |-> PyNone, opened |-> FALSE,
     closes |-> 0]

HttpCreate(codearg, d, f) ==
    LET c == ChosenCode(U1, codearg, <<"Z", "9">>)
        r == create_short_url_days(store, d)
    IN  /\ steps < MaxSteps
        /\ steps' = steps + 1
        /\ UNCHANGED <<procs, ws>>
        /\ store' = r.store
        /\ \E e \in Messages(f) :
               last' = FailCall("POST /create", c, U1, f, r, GET(store, UrlKey(c)))
                          @@ [error |-> e, days |-> d,
                              http |-> Answer(router_create_short_url,
                                              "POST /create", e)]
        /\ prev' = Brief(last)
        /\ UNCHANGED <<conns, now, nres, expired>>

\* POST /recommend: the answer of the AI service, then a link for ShareUrl
\* with expires_in_days=7; "except Exception" turns the TypeError into 500
router_get_ai_recommendation(ai, r) ==
    IF r.kind = "raise" THEN Response(500, PyNone)
    ELSE Response(200, [response |-> ai, share_url |-> r.value])

HttpRecommend(ai) ==
    LET r == create_short_url_days(store, RecommendDays)
    IN  /\ steps < MaxSteps
        /\ steps' = steps + 1
        /\ UNCHANGED <<procs, ws>>
        /\ store' = r.store
        /\ last' = FailCall("POST /recommend", <<>>, ShareUrl, NoFail, r, PyNone)
                       @@ [error |-> "", days |-> RecommendDays,
                           http |-> Answer(router_get_ai_recommendation(ai, r),
                                           "POST /recommend", "")]
        /\ prev' = Brief(last)
        /\ UNCHANGED <<conns, now, nres, expired>>

HttpStats(c, f) ==
    LET r == Scoped(store, f, get_url_stats_try(store, now, c, f.n))
    IN  /\ steps < MaxSteps
        /\ steps' = steps + 1
        /\ UNCHANGED <<procs, ws>>
        /\ store' = r.store
        /\ conns' = Held(conns, steps, r)
        /\ \E e \in Messages(f) :
               last' = FailCall("GET /stats", c, "", f, r, GET(store, UrlKey(c)))
                          @@ [error |-> e,
                              http |-> Answer(router_get_url_stats(c, r), "GET /stats", e)]
        /\ prev' = Brief(last)
        /\ UNCHANGED <<now, nres, expired>>

HttpList(keys, f) ==
    LET r == Scoped(store, f, get_all_urls_try(store, now, keys, f.n))
    IN  /\ steps < MaxSteps
        /\ steps' = steps + 1
        /\ UNCHANGED <<procs, ws>>
        /\ store' = r.store
        /\ conns' = Held(conns, steps, r)
        /\ \E e \in Messages(f) :
               last' = FailCall("GET /list", <<>>, "", f, r, PyNone)
                          @@ [error |-> e,
                              http |-> Answer(router_list_all_urls(r), "GET /list", e)]
        /\ prev' = Brief(last)
        /\ UNCHANGED <<now, nres, expired>>

HttpDelete(c, f) ==
    LET r == Scoped(store, f, delete_short_url_try(store, now, c, f.n))
    IN  /\ steps < MaxSteps
        /\ steps' = steps + 1
        /\ UNCHANGED <<procs, ws>>
        /\ store' = r.store
        /\ conns' = Held(conns, steps, r)
        /\ \E e \in Messages(f) :
               last' = FailCall("DELETE", c, "", f, r, GET(store, UrlKey(c)))
                          @@ [error |-> e,
                              http |-> Answer(router_delete_short_url(r), "DELETE", e)]
        /\ prev' = Brief(last)
        /\ UNCHANGED <<now, nres, expired>>

NextFail ==
    \/ \E codearg \in FailCodeArgs, f \in Fails(2) : FCreate(codearg, f)
    \/ \E c \in FailCodes :
           \E f \in Fails(ResolveCommands(store, c)) : FResolve(c, f)
    \/ \E c \in FailCodes, f \in Fails(3) : FStats(c, f)
    \/ \E c \in FailCodes, f \in Fails(4) : FDelete(c, f)
    \/ \E keys \in Orders(KEYS(store, UrlPrefix)) :
           \E f \in Fails(1 + 3 * Len(keys)) : FListAll(keys, f)
    \/ \E codearg \in FailCodeArgs, d \in RequestDays, f \in Fails(2) :
           HttpCreate(codearg, d, f)
    \/ \E ai \in Recommendations : HttpRecommend(ai)
    \/ \E c \in FailCodes, f \in Fails(3) : HttpStats(c, f)
    \/ \E keys \in Orders(KEYS(store, UrlPrefix)) :
           \E f \in Fails(1 + 3 * Len(keys)) : HttpList(keys, f)
    \/ \E c \in FailCodes, f \in Fails(4) : HttpDelete(c, f)

SpecFail == Init /\ [][NextFail]_vars

----------------------------------------------------------------------------
(* Overlapping calls.  The service is one object used by concurrent        *)
(* coroutines; every "await redis...." is a point where another call's     *)
(* store command may run.  Each process makes one call on the code CodeA, *)
(* one store command per step; every command succeeds.                     *)

ConcOps == {"create", "resolve", "delete", "list"}

\* the first store command of each operation
FirstPc(op) ==
    CASE op = "create" -> "setex_url"
      [] op = "resolve" -> "get"
      [] op = "delete" -> "del_url"
      [] op = "list" -> "keys"

At(p, pc) == procs[p].pc = pc

\* process p goes on to pc with its local val; with "done" it has closed
\* its connection in the finally clause and val is what it returned
Goto(p, pc, val) ==
    /\ procs' = [procs EXCEPT ![p].pc = pc, ![p].val = val]
    /\ conns' = IF pc = "done" THEN conns \ {p} ELSE conns

\* a call begins: the arguments are bound and get_redis gives a connection
Begin(p, op, u) ==
    /\ At(p, "idle")
    /\ procs' = [procs EXCEPT ![p] =
                     Proc(op, CodeA, IF op = "create" THEN u ELSE "",
                          FirstPc(op), PyNone, <<>>, <<>>,
                          ClickCount(store, CodeA),
                          Len(LRANGE(store, LogKey(CodeA))), 0)]
    /\ conns' = conns \cup {p}
    /\ UNCHANGED <<store, now, steps, nres, expired, last, prev, ws>>

\* create_short_url, line 69: the URL entry, with the default ttl
CreateUrl(p) ==
    /\ At(p, "setex_url")
    /\ store' = SETEX(store, now, UrlKey(procs[p].code), DefaultTTL,
                      Encode(procs[p].url))
    /\ Goto(p, "setex_meta", PyNone)
    /\ UNCHANGED <<now, steps, nres, expired, last, prev, ws>>

\* create_short_url, lines 72-81: the metadata entry, and the return
CreateMeta(p) ==
    /\ At(p, "setex_meta")
    /\ store' = SETEX(store, now, MetaKey(procs[p].code), DefaultTTL,
                      Encode(Metadata(now, procs[p].url, <<>>)))
    /\ Goto(p, "done", Str(ShortUrl(procs[p].code)))
    /\ nres' = [nres EXCEPT ![procs[p].code] = 0]
    /\ expired' = expired \ {procs[p].code}
    /\ UNCHANGED <<now, steps, last, prev, ws>>

\* get_original_url, lines 95-96 and 108-110
ResolveGet(p) ==
    LET original_url == GET(store, UrlKey(procs[p].code))
    IN  /\ At(p, "get")
        /\ IF Truthy(original_url) THEN Goto(p, "incr", original_url)
                                   ELSE Goto(p, "done", PyNone)
        /\ UNCHANGED <<store, now, steps, nres, expired, last, prev, ws>>

\* variant: the counter is set to one more than the value the call saw
\* when it began
ResolveIncr_stale(p) ==
    /\ At(p, "incr")
    /\ store' = Put(store, ClicksKey(procs[p].code),
                    [val |-> procs[p].c0 + 1, exp |-> NoExp])
    /\ Goto(p, "utcnow", procs[p].val)
    /\ UNCHANGED <<now, steps, nres, expired, last, prev, ws>>

\* get_original_url, line 98
ResolveIncr(p) ==
    /\ At(p, "incr")
    /\ store' = INCR(store, ClicksKey(procs[p].code))
    /\ Goto(p, "utcnow", procs[p].val)
    /\ UNCHANGED <<now, steps, nres, expired, last, prev, ws>>

\* get_original_url, line 101: the call resumes after the INCR and
\* evaluates the argument of lpush, the clock of that moment, before the
\* command is sent
ResolveUtcnow(p) ==
    /\ At(p, "utcnow")
    /\ procs' = [procs EXCEPT ![p].pc = "lpush", ![p].ts = now]
    /\ UNCHANGED <<store, conns, now, steps, nres, expired, last, prev, ws>>

\* get_original_url, lines 100-102: the store applies the push
ResolvePush(p) ==
    /\ At(p, "lpush")
    /\ store' = LPUSH(store, LogKey(procs[p].code), procs[p].ts)
    /\ Goto(p, "ltrim", procs[p].val)
    /\ UNCHANGED <<now, steps, nres, expired, last, prev, ws>>

\* get_original_url, lines 104-107: the trim, and the return
ResolveTrim(p) ==
    /\ At(p, "ltrim")
    /\ store' = LTRIM(store, LogKey(procs[p].code), LogCap - 1)
    /\ Goto(p, "done", procs[p].val)
    /\ nres' = [nres EXCEPT ![procs[p].code] = @ + 1]
    /\ UNCHANGED <<now, steps, expired, last, prev, ws>>

\* delete_short_url, lines 157-163: one DEL, and after the fourth the return
DeleteKey(p) ==
    LET c == procs[p].code
    IN  /\ procs[p].pc \in {"del_url", "del_meta", "del_clicks", "del_log"}
        /\ store' = DEL(store, CASE At(p, "del_url") -> UrlKey(c)
                                 [] At(p, "del_meta") -> MetaKey(c)
                                 [] At(p, "del_clicks") -> ClicksKey(c)
                                 [] At(p, "del_log") -> LogKey(c))
        /\ CASE At(p, "del_url") -> Goto(p, "del_meta", PyNone)
             [] At(p, "del_meta") -> Goto(p, "del_clicks", PyNone)
             [] At(p, "del_clicks") -> Goto(p, "del_log", PyNone)
             [] At(p, "del_log") -> Goto(p, "done", TRUE)
        /\ UNCHANGED <<now, steps, nres, expired, last, prev, ws>>

\* get_all_urls, line 178: the scan; without keys the loop is skipped
ListKeys(p) ==
    /\ At(p, "keys")
    /\ \E keys \in Orders(KEYS(store, UrlPrefix)) :
           /\ procs' = [procs EXCEPT ![p].keys = keys,
                                     ![p].pc = IF keys = <<>> THEN "done"
                                               ELSE "get_url",
                                     ![p].val = IF keys = <<>> THEN <<>>
                                                ELSE PyNone]
           /\ conns' = IF keys = <<>> THEN conns \ {p} ELSE conns
    /\ UNCHANGED <<store, now, steps, nres, expired, last, prev, ws>>

\* get_all_urls, lines 182-183, for the first key not yet read
ListGetUrl(p) ==
    LET key == Head(procs[p].keys)
        original_url == GET(store, key)
    IN  /\ At(p, "get_url")
        /\ procs' = [procs EXCEPT
                        ![p].pc = "get_meta",
                        ![p].val = [short_code |-> Replace(key, UrlPrefix),
                                    original_url |->
                                        IF Truthy(original_url)
                                        THEN Decode(original_url) ELSE PyNone]]
        /\ UNCHANGED <<store, conns, now, steps, nres, expired, last, prev, ws>>

\* get_all_urls, line 184
ListGetMeta(p) ==
    /\ At(p, "get_meta")
    /\ Goto(p, "get_clicks",
            procs[p].val @@ [metadata |->
                                 GET(store, MetaKey(procs[p].val.short_code))])
    /\ UNCHANGED <<store, now, steps, nres, expired, last, prev, ws>>

\* get_all_urls, lines 185-197: the counter, the entry, the next key or
\* the return
ListGetClicks(p) ==
    LET entry == procs[p].val
                     @@ [click_count |->
                             ClickCount(store, procs[p].val.short_code)]
        urls == Append(procs[p].urls, entry)
        rest == Tail(procs[p].keys)
    IN  /\ At(p, "get_clicks")
        /\ procs' = [procs EXCEPT ![p].keys = rest,
                                  ![p].urls = urls,
                                  ![p].pc = IF rest = <<>> THEN "done"
                                            ELSE "get_url",
                                  ![p].val = IF rest = <<>> THEN urls
                                             ELSE PyNone]
        /\ conns' = IF rest = <<>> THEN conns \ {p} ELSE conns
        /\ UNCHANGED <<store, now, steps, nres, expired, last, prev, ws>>

\* the ttl of the entries written at clock 0 runs out, once, between any
\* two store commands
Expire == now = 0 /\ Tick(DefaultTTL * UnitsPerSecond)

\* the store a create of CodeA and LogCap - 1 resolutions of it leave
NearStore ==
    LET s0 == create_short_url(EmptyStore, 0, U1, <<CodeA>>, <<>>, <<"Z", "9">>).store
        s1 == Put(s0, ClicksKey(CodeA), [val |-> LogCap - 1, exp |-> NoExp])
    IN  Put(s1, LogKey(CodeA),
            [val |-> [i \in 1..(LogCap - 1) |-> 0], exp |-> NoExp])

\* the store a create of CodeA leaves
FreshStore ==
    create_short_url(EmptyStore, 0, U1, <<CodeA>>, <<>>, <<"Z", "9">>).store

InitConc ==
    /\ procs = [p \in Procs |-> Idle]
    /\ now = 0
    /\ steps = 0
    /\ expired = {}
    /\ last = NoCall
    /\ prev = Brief(NoCall)
    /\ conns = {}
    /\ ws = WsInit
    /\ \/ /\ store = EmptyStore
          /\ nres = [c \in AllCodes |-> 0]
       \/ /\ store = UsedStore
          /\ nres = [c \in AllCodes |-> IF c = CodeA THEN LogCap ELSE 0]
       \/ /\ store = NearStore
          /\ nres = [c \in AllCodes |-> IF c = CodeA THEN LogCap - 1 ELSE 0]
       \/ /\ store = FreshStore
          /\ nres = [c \in AllCodes |-> 0]

NextConc ==
    \/ \E p \in Procs, op \in ConcOps, u \in URLs : Begin(p, op, u)
    \/ \E p \in Procs : CreateUrl(p)
    \/ \E p \in Procs : CreateMeta(p)
    \/ \E p \in Procs : ResolveGet(p)
    \/ \E p \in Procs : ResolveIncr(p)
    \/ \E p \in Procs : ResolveUtcnow(p)
    \/ \E p \in Procs : ResolvePush(p)
    \/ \E p \in Procs : ResolveTrim(p)
    \/ \E p \in Procs : DeleteKey(p)
    \/ \E p \in Procs : ListKeys(p)
    \/ \E p \in Procs : ListGetUrl(p)
    \/ \E p \in Procs : ListGetMeta(p)
    \/ \E p \in Procs : ListGetClicks(p)
    \/ Expire

SpecConc == InitConc /\ [][NextConc]_vars

----------------------------------------------------------------------------
(* The AI service called on its own *)

Recommend(remote) ==
    /\ Step
    /\ last' = [op |-> "recommend", remote |-> remote, kind |-> "return",
                value |-> get_location_recommendations(remote)]
    /\ prev' = last
    /\ UNCHANGED <<store, now, nres, expired>>

NextAI == \E remote \in Remotes : Recommend(remote)

SpecAI == Init /\ [][NextAI]_vars

----------------------------------------------------------------------------
(* Lengths.  A str is kept as a sequence whose items are single            *)
(* characters or one of the named strings; len() adds up their lengths.    *)

\* len() of the named strings
NamedLen(x) ==
    CASE x = base_url -> 21
      [] x = U1 -> 24
      [] x = U2 -> 30
      [] x = U3 -> 33
      [] x = UEmpty -> 0
      [] OTHER -> 1

RECURSIVE PyLen(_)
PyLen(q) == IF q = <<>> THEN 0 ELSE NamedLen(Head(q)) + PyLen(Tail(q))

\* creates with a generated code and the default expiry, for the URLs of
\* the tests and the empty URL
NextCreate ==
    \E u \in GenURLs, codearg \in {<<>>, << <<>> >>}, r \in RandomChars :
        Create(u, codearg, <<>>, r)

SpecCreate == Init /\ [][NextCreate]_vars

\* the generator alone, called again and again
NextGen == \E u \in GenURLs, r \in RandomChoices : Generate(u, r)

SpecGen == Init /\ [][NextGen]_vars

----------------------------------------------------------------------------
(* websocket/chat_handler.py: the chat endpoint.  The handlers are          *)
(* coroutines of one event loop: a step runs one handler from one await to *)
(* the next, and every "await websocket.send_text" is a point where the    *)
(* other handlers run.                                                     *)

\* the "type" of a message a client sends; "other" is any unknown type,
\* "invalid" a text that is not JSON
MsgTypes == {"chat", "location_request", "ping", "other", "invalid"}

\* what the clients do in a behaviour: connections, messages, departures
MaxEvents == 4

\* one more thing a client does
Event(m) == [m EXCEPT !.events = @ + 1]

url_vars == <<store, now, steps, nres, expired, last, prev, conns, procs>>

\* the "type" of the message the handler answers a message of type t with
Reply(t) ==
    CASE t = "chat" -> "chat_response"
      [] t = "location_request" -> "ai_recommendation"
      [] t = "ping" -> "pong"
      [] OTHER -> "error"

\* what broadcast is called with by each of its callers
BroadcastText(ctx) == IF ctx = "chat" THEN "broadcast" ELSE ctx

\* send_text on socket w goes through: its client is there and the
\* endpoint of w has not ended, which closes the socket
Writable(m, w) == m.h[w].peer = "open" /\ m.h[w].pc # "ended"

\* ConnectionManager.disconnect
disconnect(m, user_id) ==
    IF Contains(m.active_connections, user_id)
    THEN [m EXCEPT !.active_connections = DelItem(@, user_id)]
    ELSE m

\* broadcast, lines 56-58: the loop over disconnected_users
RECURSIVE disconnect_each(_, _)
disconnect_each(m, disconnected_users) ==
    IF disconnected_users = <<>> THEN m
    ELSE disconnect_each(disconnect(m, Head(disconnected_users)),
                         Tail(disconnected_users))

\* the endpoint of w returns, or ends by an exception it does not catch
Ended(m, w, exc) ==
    [m EXCEPT !.h[w].pc = "ended", !.h[w].exc = exc, !.h[w].cur = NoEntry]

\* the statement after a broadcast: receive_text again, or the end of the
\* "except WebSocketDisconnect" clause
broadcast_returned(m, w) ==
    IF m.h[w].ctx = "left" THEN Ended(m, w, FALSE)
    ELSE [m EXCEPT !.h[w].pc = "recv", !.h[w].cur = NoEntry]

\* an exception leaves broadcast: the call of line 92 is inside the try,
\* whose "except Exception" disconnects the user; that of connect (line 73)
\* is before the try and that of line 180 inside an except clause
broadcast_raised(m, w) ==
    IF m.h[w].ctx = "chat" THEN Ended(disconnect(m, UserOf(w)), w, FALSE)
    ELSE Ended(m, w, TRUE)

\* broadcast, lines 48-62, from the next() of the for loop to the next
\* send_text or to the end
broadcast_next(m, w) ==
    LET r == NextItem(m.active_connections, m.h[w].it)
    IN  CASE r.kind = "RuntimeError" ->
                 broadcast_raised([m EXCEPT !.h[w].bres = "raised"], w)
          [] r.kind = "StopIteration" ->
                 broadcast_returned(
                     disconnect_each([m EXCEPT !.h[w].bres = "returned"],
                                     m.h[w].failed), w)
          [] r.kind = "item" ->
                 [m EXCEPT !.h[w].pc = "bsend",
                           !.h[w].cur = r.item,
                           !.h[w].it = r.it]

\* ConnectionManager.broadcast, called by the handler of w
broadcast(m, w, ctx) ==
    broadcast_next([m EXCEPT !.h[w].ctx = ctx,
                             !.h[w].it = Iter(m.active_connections),
                             !.h[w].start = Keys(m.active_connections),
                             !.h[w].tried = <<>>,
                             !.h[w].failed = <<>>,
                             !.h[w].bres = "running"], w)

\* ConnectionManager.send_personal_message up to its send_text: user_id is
\* whatever the caller passes as second argument
send_personal_message(m, w, user_id) ==
    IF Contains(m.active_connections, user_id)
    THEN [m EXCEPT !.h[w].pc = "psend",
                   !.h[w].cur = [user |-> user_id,
                                 sock |-> GetItem(m.active_connections,
                                                  user_id)]]
    ELSE m

\* the second argument of send_personal_message: user_id for a chat
\* message (line 91), the websocket object for every other answer
\* (lines 124-126, 138-140, 148-150, 163-165, 174-176)
PersonalKey(w, t) == IF t = "chat" THEN UserOf(w) ELSE w

\* websocket_endpoint, line 73: accept, the registration and the
\* broadcast of the arrival
Connect(w) ==
    /\ w \notin DOMAIN ws.h
    /\ ws.events < MaxEvents
    /\ ws' = broadcast([Event(ws) EXCEPT
                           !.h = @ @@ (w :> [NoHandler EXCEPT !.peer = "open",
                                                              !.pc = "recv"]),
                           !.got = @ @@ (w :> {}),
                           !.active_connections = SetItem(@, UserOf(w), w)],
                       w, "joined")
    /\ UNCHANGED url_vars

\* the client of w sends a message
ClientSend(w, t) ==
    /\ w \in DOMAIN ws.h
    /\ Writable(ws, w)
    /\ ws.h[w].inbox = "none"
    /\ ws.events < MaxEvents
    /\ ws' = [Event(ws) EXCEPT !.h[w].inbox = t]
    /\ UNCHANGED url_vars

\* websocket_endpoint, lines 76-176: receive_text returns a message and
\* the handler runs to the send_text of its answer, or to receive_text
\* again when nothing is sent
Receive(w) ==
    LET t == ws.h[w].inbox
        m1 == [ws EXCEPT !.h[w].inbox = "none", !.h[w].req = t]
        m2 == send_personal_message(m1, w, PersonalKey(w, t))
    IN  /\ w \in DOMAIN ws.h
        /\ ws.h[w].pc = "recv"
        /\ t # "none"
        /\ ws' = IF m2.h[w].pc = "psend" THEN m2
                 ELSE IF t = "chat" THEN broadcast(m2, w, "chat")
                 ELSE m2
        /\ UNCHANGED url_vars

\* send_personal_message, lines 36-42: the send_text ends, and the
\* handler goes on to the broadcast of a chat message or to receive_text
PersonalSend(w) ==
    LET cur == ws.h[w].cur
        t == ws.h[w].req
        m1 == IF Writable(ws, cur.sock)
              THEN [ws EXCEPT !.got[cur.sock] = @ \cup {Reply(t)}]
              ELSE disconnect(ws, cur.user)
        m2 == [m1 EXCEPT !.h[w].pc = "recv", !.h[w].cur = NoEntry]
    IN  /\ w \in DOMAIN ws.h
        /\ ws.h[w].pc = "psend"
        /\ ws' = IF t = "chat" THEN broadcast(m2, w, "chat") ELSE m2
        /\ UNCHANGED url_vars

\* broadcast, lines 48-54: one send_text ends, with an exception when the
\* socket is closed, and the loop goes on
BroadcastSend(w) ==
    LET cur == ws.h[w].cur
        ok == Writable(ws, cur.sock)
        m1 == [ws EXCEPT
                  !.h[w].tried = Append(@, cur.user),
                  !.h[w].failed = IF ok THEN @ ELSE Append(@, cur.user),
                  !.got[cur.sock] =
                      IF ok THEN @ \cup {BroadcastText(ws.h[w].ctx)} ELSE @]
    IN  /\ w \in DOMAIN ws.h
        /\ ws.h[w].pc = "bsend"
        /\ ws' = broadcast_next(m1, w)
        /\ UNCHANGED url_vars

\* the client of w goes away
ClientClose(w) ==
    /\ w \in DOMAIN ws.h
    /\ Writable(ws, w)
    /\ ws.events < MaxEvents
    /\ ws' = [Event(ws) EXCEPT !.h[w].peer = "gone"]
    /\ UNCHANGED url_vars

\* websocket_endpoint, lines 178-181: receive_text raises
\* WebSocketDisconnect once the messages before it are read
Disconnected(w) ==
    /\ w \in DOMAIN ws.h
    /\ ws.h[w].pc = "recv"
    /\ ws.h[w].inbox = "none"
    /\ ws.h[w].peer = "gone"
    /\ ws' = broadcast(disconnect(ws, UserOf(w)), w, "left")
    /\ UNCHANGED url_vars

\* health_check: the number it reports as active_connections
health_check(m) == DictLen(m.active_connections)

InitWs == Init /\ store = EmptyStore

NextWs ==
    \/ \E w \in Sockets : Connect(w)
    \/ \E w \in Sockets, t \in MsgTypes : ClientSend(w, t)
    \/ \E w \in Sockets : Receive(w)
    \/ \E w \in Sockets : PersonalSend(w)
    \/ \E w \in Sockets : BroadcastSend(w)
    \/ \E w \in Sockets : ClientClose(w)
    \/ \E w \in Sockets : Disconnected(w)

SpecWs == InitWs /\ [][NextWs]_vars

\* the event loop runs every handler that can go on: one whose
\* receive_text or send_text has ended is resumed; a client is free never
\* to send and never to leave
SpecWsLive ==
    /\ InitWs
    /\ [][NextWs]_vars
    /\ \A w \in Sockets :
           /\ WF_vars(Receive(w))
           /\ WF_vars(PersonalSend(w))
           /\ WF_vars(BroadcastSend(w))
           /\ WF_vars(Disconnected(w))

----------------------------------------------------------------------------
(* Properties *)

Min(a, b) == IF a <= b THEN a ELSE b

\* the characters of a str or bytes value
Text(x) == x.v

\* most recent first
NonIncreasing(q) == \A i \in 1..(Len(q) - 1) : q[i] >= q[i + 1]

\* a create that has just returned a link with the default expiry
CreatedDefault(l) == l.op = "create" /\ l.kind = "return" /\ l.exparg = <<>>

\* C1: read-your-write.  A create of target URL u (generated or custom code,
\* default expiry) followed immediately by a resolve of its code returns a
\* value equal to u, the str that was passed to create.
C1_ReadYourWrite ==
    (last.op = "resolve" /\ CreatedDefault(prev) /\ prev.code = last.code)
        => last.value = Str(prev.url)

\* C2: click accounting.  For a link created by create, after n resolutions
\* of its code that returned the URL, get_stats reports click_count = n and a
\* click log of exactly min(n, LogCap) entries, most recent first.
C2_ClickAccounting ==
    (last.op = "stats" /\ Exists(store, UrlKey(last.code)))
        => /\ last.value.click_count = nres[last.code]
           /\ Len(last.value.click_logs) = Min(nres[last.code], LogCap)
           /\ NonIncreasing(last.value.click_logs)

\* C3: right after any create returns for code c the click count of c is 0
\* and its click log is empty, whatever happened to c before; a created and
\* never resolved code reports click_count = 0 in get_stats.
C3_FreshCounter ==
    /\ (last.op = "create" /\ last.kind = "return")
           => /\ ClickCount(store, last.code) = 0
              /\ LRANGE(store, LogKey(last.code)) = <<>>
    /\ (last.op = "stats" /\ Exists(store, UrlKey(last.code))
            /\ nres[last.code] = 0)
           => last.value.click_count = 0

\* the four keys of a code
Facets(c) == {UrlKey(c), MetaKey(c), ClicksKey(c), LogKey(c)}

\* C4: a resolve of a code whose URL entry is absent at the lookup (never
\* created, deleted or expired) returns None and leaves every store key as
\* it was: no counter and no log entry appears.
C4_ResolveAbsentNoEffect ==
    [][(last'.op = "resolve" /\ ~Exists(store, UrlKey(last'.code)))
           => (last'.value = PyNone /\ store' = store)]_vars

\* the URL of a code expired while its counter stayed behind, and a resolve
\* of that code has just returned None
C4_Witness ==
    /\ last.op = "resolve"
    /\ last.pre = PyNone
    /\ last.value = PyNone
    /\ last.code \in expired
    /\ Exists(store, ClicksKey(last.code))

\* C5: after delete(code), a resolve of the same code that follows returns
\* None, whether or not the code existed before and whatever came earlier.
C5_DeleteThenResolve ==
    (last.op = "resolve" /\ prev.op = "delete" /\ prev.code = last.code)
        => last.value = PyNone

\* a delete of a code that had a URL, then a resolve of it
C5_Witness ==
    /\ last.op = "resolve"
    /\ prev.op = "delete"
    /\ prev.code = last.code
    /\ Truthy(prev.pre)

\* C6: delete returns True for every code; none of the four keys of the code
\* exists afterwards; when none existed before, the store is unchanged.
C6_DeleteAlwaysTrue ==
    [][last'.op = "delete"
           => /\ last'.kind = "return"
              /\ last'.value = TRUE
              /\ \A k \in Facets(last'.code) : ~Exists(store', k)
              /\ (\A k \in Facets(last'.code) : ~Exists(store, k))
                     => store' = store]_vars

\* a delete of a code that never had any key, with other keys in the store
C6_Witness ==
    /\ last.op = "delete"
    /\ last.value = TRUE
    /\ prev.op = "none"
    /\ last.code # CodeA
    /\ store = UsedStore

\* C7: list_all returns exactly one entry for each code whose URL entry is
\* present and none for a code whose URL entry is absent, whatever else of
\* that code remains; an entry whose counter or metadata is absent reports
\* click_count = 0 and metadata None.
C7_ListAllByUrlEntry ==
    last.op = "list"
        => LET entries == last.value
           IN  /\ \A c \in AllCodes :
                      Exists(store, UrlKey(c))
                          => Cardinality({i \in 1..Len(entries) :
                                             entries[i].short_code = c}) = 1
               /\ \A i \in 1..Len(entries) :
                      /\ Exists(store, UrlKey(entries[i].short_code))
                      /\ ~Exists(store, ClicksKey(entries[i].short_code))
                             => entries[i].click_count = 0
                      /\ ~Exists(store, MetaKey(entries[i].short_code))
                             => entries[i].metadata.t = "none"

\* a create that has just replaced the live URL of its custom code by a
\* different one
Overwrote(l) ==
    /\ l.op = "create"
    /\ l.kind = "return"
    /\ l.code \in CustomCodes
    /\ Truthy(l.pre)
    /\ Text(l.pre) # l.url

\* C8: last write wins.  A create under a custom code that already holds a
\* different URL succeeds and leaves the second URL in the URL entry and in
\* the metadata; a resolve of the code afterwards returns the second URL.
C8_LastWriteWins ==
    /\ (last.op = "create" /\ last.exparg = <<>>) => last.kind = "return"
    /\ Overwrote(last)
           => /\ GET(store, UrlKey(last.code)) = Encode(last.url)
              /\ Text(GET(store, MetaKey(last.code))).original_url = last.url
    /\ (last.op = "resolve" /\ Overwrote(prev) /\ prev.code = last.code)
           => /\ Truthy(last.value)
              /\ Text(last.value) = prev.url
              /\ Text(GET(store, MetaKey(last.code))).original_url = prev.url

\* two creates under one custom code with different URLs, then a resolve
C8_Witness ==
    /\ last.op = "resolve"
    /\ Overwrote(prev)
    /\ prev.code = last.code
    /\ store # UsedStore
    /\ ClickCount(store, last.code) = 1

\* C9: a create whose expires_at is not in the future does not fail: it
\* returns a link, and a resolve of its code right afterwards returns None.
C9_PastExpiryDoesNotFail ==
    /\ (last.op = "create" /\ last.exparg # <<>> /\ last.exparg[1] <= now)
           => last.kind = "return"
    /\ (last.op = "resolve" /\ prev.op = "create" /\ prev.code = last.code
            /\ prev.exparg # <<>> /\ prev.exparg[1] <= now)
           => last.value = PyNone

\* C10: in every state in which the URL entry of a code has been evicted by
\* its ttl, the metadata, the click counter and the click log of that code
\* are gone as well.
C10_FacetsExpireTogether ==
    \A c \in expired :
        ~Exists(store, UrlKey(c))
            => \A k \in Facets(c) : ~Exists(store, k)

\* C11: get_stats returns None for a code that has neither a URL entry nor
\* a click counter; for a code that has them it returns a record with the
\* code, its target URL, click count, click log and metadata.
C11_StatsNoneForUnknown ==
    last.op = "stats"
        => IF ~Exists(store, UrlKey(last.code)) /\ ~Exists(store, ClicksKey(last.code))
           THEN IsNone(last.value)
           ELSE /\ ~IsNone(last.value)
                /\ {"short_code", "original_url", "click_count", "click_logs",
                    "metadata"} \subseteq DOMAIN last.value
                /\ last.value.short_code = last.code
                /\ last.value.click_count = ClickCount(store, last.code)

StoredUnder(l, c) ==
    /\ l.code = c
    /\ GET(store, UrlKey(c)) = Encode(l.url)
    /\ Text(GET(store, MetaKey(c))).original_url = l.url
    /\ l.value = Str(<<base_url, "/", "s", "/">> \o c)

\* C17 as stated: for every string supplied as custom_code, the empty one
\* included, create stores the link under exactly that code and returns
\* base_url + "/s/" + custom_code; the generator runs only for None.
C17_CustomCodeVerbatim ==
    (last.op = "create" /\ last.kind = "return")
        => IF last.codearg # <<>>
           THEN StoredUnder(last, last.codearg[1])
           ELSE last.code \in GeneratedCodes

\* C17, amended: for every non-empty string supplied as custom_code create
\* stores the link under exactly that code and returns base_url + "/s/" +
\* custom_code; for None and for the empty string the generator runs and
\* the link is stored under the generated code.
C17_NonEmptyCodeVerbatim ==
    (last.op = "create" /\ last.kind = "return")
        => IF last.codearg # <<>> /\ last.codearg[1] # <<>>
           THEN StoredUnder(last, last.codearg[1])
           ELSE /\ last.code \in GeneratedCodes
                /\ StoredUnder(last, last.code)

\* a create called with the empty string as custom_code has returned
C17_Witness ==
    /\ last.op = "create"
    /\ last.kind = "return"
    /\ last.codearg = << <<>> >>
    /\ last.code \in GeneratedCodes

\* C18: create writes the URL entry and the metadata entry with one ttl:
\* expires_at minus the clock in whole seconds when expires_at is given,
\* 2,592,000 seconds when it is not; every other key is left as it was.
C18_OneTtl ==
    [][(last'.op = "create" /\ last'.kind = "return")
           => LET c == last'.code
                  ttl == IF last'.exparg = <<>> THEN 2592000
                         ELSE (last'.exparg[1] - now) \div UnitsPerSecond
              IN  /\ store'[UrlKey(c)].exp = now + ttl * UnitsPerSecond
                  /\ store'[MetaKey(c)].exp = now + ttl * UnitsPerSecond
                  /\ \A k \in DOMAIN store' \ {UrlKey(c), MetaKey(c)} :
                         k \in DOMAIN store /\ store'[k] = store[k]]_vars

\* a create with an expires_at a second and a fraction ahead has returned
\* for a code whose counter, without ttl, is in the store
C18_Witness ==
    /\ last.op = "create"
    /\ last.kind = "return"
    /\ last.exparg # <<>>
    /\ last.exparg[1] - now = UnitsPerSecond + 1
    /\ Exists(store, ClicksKey(last.code))
    /\ store[ClicksKey(last.code)].exp = NoExp

HexDigits == {"0", "1", "2", "3", "4", "5", "6", "7", "8", "9",
              "a", "b", "c", "d", "e", "f"}

\* C16: generate_short_code returns exactly 8 characters: 6 of [0-9a-f]
\* that depend on the URL only (two calls on one URL give the same first
\* 6), then the 2 characters of [A-Za-z0-9] that random.choices drew,
\* whatever the URL.
C16_GeneratedShape ==
    last.op = "generate"
        => /\ Len(last.value) = 8
           /\ \A i \in 1..6 : last.value[i] \in HexDigits
           /\ \A i \in 7..8 : last.value[i] \in AsciiLetters \cup Digits
           /\ SubSeq(last.value, 7, 8) = last.rand
           /\ (prev.op = "generate" /\ prev.url = last.url)
                  => SubSeq(prev.value, 1, 6) = SubSeq(last.value, 1, 6)

\* two calls on one URL gave different last characters
C16_Witness ==
    /\ last.op = "generate"
    /\ prev.op = "generate"
    /\ prev.url = last.url
    /\ prev.value # last.value
    /\ SubSeq(prev.value, 1, 6) = SubSeq(last.value, 1, 6)

ServiceOps == {"create", "resolve", "stats", "list", "delete"}
HttpOps == {"POST /create", "GET /stats", "GET /list", "DELETE"}

\* C12: every get_url_stats call returns a click log of at most 100
\* entries, in any reachable state, a state left by a resolve whose trim
\* failed included.
C12_LogCapped ==
    (last.op = "stats" /\ last.kind = "return" /\ ~IsNone(last.value))
        => Len(last.value.click_logs) <= LogCap

\* C14: when a store call of an operation fails (get_redis, a command, or
\* close), create raises, while resolve, stats, list and delete do not
\* raise and return None, None, the empty list and False.
C14_FailureAsymmetry ==
    (last.op \in ServiceOps /\ last.fail.at # "none")
        => CASE last.op = "create" -> last.kind = "raise"
             [] last.op \in {"resolve", "stats"} ->
                    last.kind = "return" /\ IsNone(last.value)
             [] last.op = "list" -> last.kind = "return" /\ last.value = <<>>
             [] last.op = "delete" -> last.kind = "return" /\ last.value = FALSE

C19_NotFoundIs404 ==
    (last.op \in {"GET /stats", "DELETE"} /\ last.fail.at = "none")
        => IF IsNone(last.pre)
           THEN last.http.status = 404
           ELSE last.op = "GET /stats"
                    => /\ last.http.status = 200
                       /\ last.http.body.click_count = ClickCount(store, last.code)

\* C20: a store failure during a URL endpoint answers 500.
C20_StoreFailureIs500 ==
    (last.op \in HttpOps /\ last.fail.at # "none") => last.http.status = 500

\* C21: the answer of a URL endpoint does not depend on the text of the
\* store's exception: the same request in the same state with any other
\* error text gets the identical status, body and detail.
C21_DetailIndependent ==
    last.op \in HttpOps
        => \A e \in ErrorMessages :
               Answer([status |-> last.http.status, body |-> last.http.body],
                      last.op, e) = last.http

\* GET /list answered 500 after get_redis raised with one of the texts
C21_Witness ==
    /\ last.op = "GET /list"
    /\ last.fail.at = "connect"
    /\ last.error = "Connection refused"
    /\ last.http.status = 500
    /\ last.http.detail = "error while listing the URLs"

\* C22: no rollback on a partial write.  When the URL write of create
\* fails, create raises and the store is as before, no metadata written;
\* when the URL write succeeds and the metadata write fails, create raises,
\* the URL entry is in the store, the metadata entry is as before, and a
\* resolve of the code in that state returns the target URL.
C22_NoRollback ==
    [][(last'.op = "create" /\ last'.fail.at = "cmd")
           => LET c == last'.code
              IN  /\ last'.kind = "raise"
                  /\ last'.fail.n = 1 => store' = store
                  /\ last'.fail.n = 2
                         => /\ GET(store', UrlKey(c)) = Encode(last'.url)
                            /\ GET(store', MetaKey(c)) = GET(store, MetaKey(c))
                            /\ get_original_url(store', now', c).value
                                   = Encode(last'.url)]_vars

\* a create on the empty store raised at its metadata write, and the
\* resolve after it returned the target URL of a code without metadata
C22_Witness ==
    /\ prev.op = "create"
    /\ prev.kind = "raise"
    /\ IsNone(prev.pre)
    /\ last.op = "resolve"
    /\ last.code = prev.code
    /\ last.value = Encode(prev.url)
    /\ ~Exists(store, MetaKey(last.code))

\* C23: links with different codes are independent.  A create, resolve or
\* delete on one code leaves each of the four keys of every other code as
\* it was, absent or present with the same value and expiry, also when
\* both codes hold the same target URL; two different codes have no key
\* in common.
C23_CodesIndependent ==
    [][last'.op \in {"create", "resolve", "delete"}
           => \A b \in AllCodes \ {last'.code} :
                  /\ Facets(b) \cap Facets(last'.code) = {}
                  /\ \A k \in Facets(b) :
                         /\ Exists(store', k) <=> Exists(store, k)
                         /\ Exists(store, k) => store'[k] = store[k]]_vars

\* a generated code was created for the URL another code holds, resolved
\* or left alone, and deleted, and the other code still holds the URL and
\* its clicks
C23_Witness ==
    /\ last.op = "delete"
    /\ last.code \in GeneratedCodes
    /\ ~IsNone(last.pre)
    /\ last.code # CodeA
    /\ GET(store, UrlKey(CodeA)) = last.pre
    /\ ClickCount(store, CodeA) = LogCap

\* C27: the click counter counts successful resolutions only, also under
\* store failures.  Step by step: a resolve that returns the target URL
\* adds one to the counter of its code, and every other call that does not
\* delete, a resolve that returns None or raises included, leaves the
\* counter and the log of every code as they were.
C27_CountsSuccessesOnly ==
    [][(last'.op \in ServiceOps /\ last'.op # "delete")
           => \A c \in AllCodes :
                  IF /\ last'.op = "resolve"
                     /\ last'.code = c
                     /\ last'.kind = "return"
                     /\ Truthy(last'.value)
                  THEN ClickCount(store', c) = ClickCount(store, c) + 1
                  ELSE /\ ClickCount(store', c) = ClickCount(store, c)
                       /\ LRANGE(store', LogKey(c)) = LRANGE(store, LogKey(c))]_vars

\* the least element of a non-empty set of numbers
Least(S) == CHOOSE x \in S : \A y \in S : x <= y

\* C24: concurrent resolutions lose no click.  When every process has
\* completed a resolve of the code that returned the target URL, with the
\* store commands of the calls interleaved in any order, the counter is
\* the counter from before the first of them plus the number of calls, and
\* the log holds min(length before + number of calls, 100) entries.
C24_NoLostClick ==
    (\A p \in Procs : /\ At(p, "done")
                      /\ procs[p].op = "resolve"
                      /\ Truthy(procs[p].val))
        => /\ ClickCount(store, CodeA)
                  = Least({procs[p].c0 : p \in Procs}) + NProcs
           /\ Len(LRANGE(store, LogKey(CodeA)))
                  = Min(Least({procs[p].l0 : p \in Procs}) + NProcs, LogCap)

\* all resolves began on the same counter, one below the cap, before any
\* of them had counted, and all have returned the target URL
C24_Witness ==
    /\ \A p \in Procs : /\ At(p, "done")
                        /\ procs[p].op = "resolve"
                        /\ Truthy(procs[p].val)
                        /\ procs[p].c0 = LogCap - 1
                        /\ procs[p].l0 = LogCap - 1
    /\ ClickCount(store, CodeA) = LogCap - 1 + NProcs
    /\ Len(LRANGE(store, LogKey(CodeA))) = LogCap

\* C28: deletion is final under interleaving.  Once a delete of the code
\* has returned and no process has been asked to create it, none of the
\* four keys of the code exists, also when a resolve that read the URL
\* before the delete counts its click after it.
C28_DeleteFinal ==
    (/\ \E p \in Procs : At(p, "done") /\ procs[p].op = "delete"
     /\ \A p \in Procs : procs[p].op # "create")
        => \A k \in Facets(CodeA) : ~Exists(store, k)

\* C29: URL and metadata agree.  While no create is in flight and both the
\* URL entry and the metadata entry of the code exist, the original_url in
\* the metadata is the value of the URL entry, also after two creates of
\* the same code whose writes interleaved.
C29_UrlMetaAgree ==
    (/\ \A p \in Procs : procs[p].op = "create" => At(p, "done")
     /\ Exists(store, UrlKey(CodeA))
     /\ Exists(store, MetaKey(CodeA)))
        => Text(GET(store, MetaKey(CodeA))).original_url
               = Text(GET(store, UrlKey(CodeA)))

\* C30: every entry a completed list returned carries a target URL, never
\* None, also when the code was deleted or expired between the scan and
\* the reads.
C30_ListedUrlPresent ==
    \A p \in Procs :
        (At(p, "done") /\ procs[p].op = "list")
            => \A i \in 1..Len(procs[p].val) :
                   ~IsNone(procs[p].val[i].original_url)

\* C25: get_location_recommendations does not raise and returns a
\* non-empty string: the content of the remote answer on a 200 response
\* that carries one, the fallback message in every other case.
C25_NonEmptyAnswer ==
    last.op = "recommend"
        => /\ last.kind = "return"
           /\ last.value.t = "str"
           /\ last.value.v # ""
           /\ IF /\ last.remote.kind = "response"
                 /\ last.remote.status = 200
                 /\ last.remote.json
                 /\ HasContent(last.remote.data)
              THEN Truthy(last.remote.data.choices[1].message.content)
                       => last.value = last.remote.data.choices[1].message.content
              ELSE last.value = Fallback

\* C26: the link create returns for a generated code has len(base_url) +
\* 3 + 8 characters and is strictly longer than the target URL it was
\* created for, the 33-character URL of test_create_short_url included.
C26_LinkLongerThanUrl ==
    (last.op = "create" /\ last.kind = "return")
        => /\ PyLen(Text(last.value)) = NamedLen(base_url) + 3 + 8
           /\ PyLen(Text(last.value)) > NamedLen(last.url)

\* C31: for every code that holds a link, custom codes containing "url:"
\* included, list_all returns an entry that reports exactly that code as
\* short_code, with the metadata and the click count stored for that code.
C31_ListReportsCode ==
    (last.op = "list" /\ last.kind = "return")
        => \A c \in AllCodes :
               Exists(store, UrlKey(c))
                   => \E i \in 1..Len(last.value) :
                          /\ last.value[i].short_code = c
                          /\ last.value[i].original_url
                                 = Decode(GET(store, UrlKey(c)))
                          /\ last.value[i].metadata = GET(store, MetaKey(c))
                          /\ last.value[i].click_count = ClickCount(store, c)

\* C34: a delete that reports failure has changed nothing: when delete
\* returns False, the four keys of the code are as they were before the
\* call, and a link that resolved before still resolves.
C34_FailedDeleteNoChange ==
    [][(last'.op = "delete" /\ last'.kind = "return" /\ last'.value = FALSE)
           => /\ \A k \in Facets(last'.code) :
                     /\ Exists(store', k) <=> Exists(store, k)
                     /\ Exists(store, k) => store'[k] = store[k]
              /\ get_original_url(store', now', last'.code).value
                     = get_original_url(store, now, last'.code).value]_vars

\* C35: get_url_stats and get_all_urls are read-only: a step of either
\* leaves every key of the store, URL, metadata, counter and log, with
\* the value and the expiry it had.
C35_ReadOnly ==
    [][last'.op \in {"stats", "list"} => store' = store]_vars

\* the statistics of a code were read right after a resolution took its
\* counter past the cap of the log
C35_Witness ==
    /\ last.op = "stats"
    /\ prev.op = "resolve"
    /\ prev.code = last.code
    /\ ClickCount(store, last.code) = LogCap + 1
    /\ Len(LRANGE(store, LogKey(last.code))) = LogCap

\* d days in units of the clock
DaysTtl(d) == d * 24 * 60 * 60 * UnitsPerSecond

\* C33: a link requested over HTTP with expires_in_days = d (POST /create,
\* the recommendation endpoint with d = 7), no store failure occurring, is
\* answered with 200, is stored with a ttl of d days, and the answer carries
\* the code it is stored under, whose resolution returns the requested URL.
C33_HttpCreateStores ==
    (last.op \in {"POST /create", "POST /recommend"} /\ last.fail.at = "none")
        => /\ last.http.status = 200
           /\ \E k \in DOMAIN store :
                  LET c == SubSeq(k, Len(UrlPrefix) + 1, Len(k))
                  IN  /\ HasPrefix(k, UrlPrefix)
                      /\ Text(store[k].val) = last.url
                      /\ store[k].exp = now + DaysTtl(last.days)
                      /\ Text(get_original_url(store, now, c).value) = last.url
                      /\ last.op = "POST /create"
                             => last.http.body.short_code = c
                      /\ last.op = "POST /recommend"
                             => last.http.body.share_url = Str(ShortUrl(c))

\* C32: the click log is most-recent-first in every reachable state, its
\* timestamps non-increasing from head to tail, also when two resolutions
\* of one code overlap and the one that read the clock first pushes last.
C32_LogMostRecentFirst ==
    \A c \in AllCodes : NonIncreasing(LRANGE(store, LogKey(c)))

\* the types the handler answers on the socket of the sender alone
Requests == {"location_request", "ping", "other", "invalid"}

\* C36: every message a connected user sends is eventually answered on the
\* socket it came in on, a ping by a pong, a location_request by an
\* ai_recommendation or an error, an unknown type or invalid JSON by an
\* error, unless the user leaves or the handler ends before.
C36_EveryMessageAnswered ==
    \A w \in Sockets : \A t \in Requests :
        (w \in DOMAIN ws.h /\ ws.h[w].inbox = t)
            ~> /\ w \in DOMAIN ws.h
               /\ \/ Reply(t) \in ws.got[w]
                  \/ t = "location_request" /\ "error" \in ws.got[w]
                  \/ ws.h[w].peer = "gone"
                  \/ ws.h[w].pc = "ended"

\* the handler of w has accepted the socket and has not ended
Running(w) == w \in DOMAIN ws.h /\ ws.h[w].pc # "ended"

\* the handler of w is in its receive loop and the client is there
Serving(w) == Running(w) /\ Writable(ws, w) /\ ws.h[w].ctx # "left"

\* C37: active_connections maps a user_id to a socket exactly when the user
\* has an accepted socket whose handler has not ended, and to such a socket
\* of that user: an entry belongs to a running handler of its user, every
\* user with a served socket has an entry, and health_check counts
\* accordingly; also after a second connection of a user and the
\* departure of the first.  Stated for the behaviours in which no
\* broadcast has failed.
C37_RegistryMatchesLive ==
    LET d == ws.active_connections
        served == {UserOf(w) : w \in {x \in Sockets : Serving(x)}}
        running == {UserOf(w) : w \in {x \in Sockets : Running(x)}}
    IN  (\A w \in DOMAIN ws.h : ws.h[w].bres # "raised")
            => /\ \A u \in Keys(d) :
                      /\ UserOf(GetItem(d, u)) = u
                      /\ Running(GetItem(d, u))
               /\ \A w \in Sockets : Serving(w) => UserOf(w) \in Keys(d)
               /\ health_check(ws) >= Cardinality(served)
               /\ health_check(ws) <= Cardinality(running)

\* C38: a broadcast never fails, and when it has returned it has sent once
\* to every user registered when it began, whatever the other handlers did
\* to active_connections while it was suspended in a send.
C38_BroadcastCompletes ==
    \A w \in DOMAIN ws.h :
        /\ ws.h[w].bres # "raised"
        /\ ~ws.h[w].exc
        /\ ws.h[w].bres = "returned"
               => /\ Len(ws.h[w].tried) = Cardinality(ws.h[w].start)
                  /\ {ws.h[w].tried[i] : i \in 1..Len(ws.h[w].tried)}
                         = ws.h[w].start

====
